---- MODULE Spec2Model ----
(***************************************************************************)
(* State-machine model of src/src/tcp_server.rs (mic2net): the listener    *)
(* loop TcpServer::run / TcpServer::accept, the per-connection task         *)
(* spawned by run (SocketHandler::run followed by drop(permit) and the     *)
(* drop of the handler), and the two phases of start_server.               *)
(*                                                                         *)
(* A step is one operation on a shared synchronisation object (semaphore,  *)
(* Notify, broadcast channel, completion channel, payload cell, listening  *)
(* socket).  Handler tasks are spawned with tokio::spawn and may run on    *)
(* other worker threads, so their steps interleave freely with the         *)
(* listener's; run() itself is polled inside start_server's select!, so    *)
(* the listener and the coordinator are one task.                          *)
(***************************************************************************)
EXTENDS Integers, FiniteSets, Sequences, TLC

\* ---------------------------------------------------------------- bounds
\* Largest pool capacity (max_clients) a server is built with.
MaxCapacity == 2
\* Number of handler tasks that can be spawned, and of connections that can
\* be waiting or admitted at a time.
MaxConns == 3
\* Number of payloads the producer publishes after the buffer the cell is
\* built with (payload 0).
MaxPayload == 1

\* ------------------------------------------------------ program constants
\* accept(): "if backoff > 64" gives up.
BackoffCeiling == 64

Handlers == 1..MaxConns

VARIABLES
    max_clients,           \* capacity the semaphore was built with
    limit_connections,     \* available permits of the semaphore
    listener,              \* where TcpServer::run is: "acquire", "accept", "error", "dropped"
    permit,                \* run's local `permit` is held
    backoff,               \* accept's local `backoff`
    slept,                 \* seconds slept by the current call of accept
    retries,               \* failed attempts retried by the current call of accept
    pending,               \* connections waiting in the OS accept queue
    spawned,               \* number of handler tasks spawned so far
    start,                 \* where start_server is
    reported,              \* start_server printed "Failed to accept connection"
    notify_shutdown,       \* the broadcast sender exists (not dropped)
    shutdown_complete_tx,  \* the coordinator's completion sender exists
    notify_data_ready,     \* Notify holds a stored permit (notify_one with no waiter)
    data_to_send,          \* version of the buffer in the payload cell
    hstate,                \* per task: "none","idle","racing","returned","released","unwound","done"
    hpermit,               \* per task: the task owns its OwnedSemaphorePermit
    hcomplete,             \* per task: the handler's _shutdown_complete clone exists
    read_off,              \* per task: the read branch of the current select! is disabled
    released,              \* per task: how many times its permit was given back
    sent                   \* payload versions some write_packet has sent so far

vars == <<max_clients, limit_connections, listener, permit, backoff, slept,
          retries, pending, spawned, start, reported, notify_shutdown,
          shutdown_complete_tx, notify_data_ready, data_to_send, hstate,
          hpermit, hcomplete, read_off, released, sent>>

listenerVars == <<listener, permit, backoff, slept, retries, pending, spawned>>
coordVars == <<start, reported, notify_shutdown, shutdown_complete_tx>>
handlerVars == <<hstate, hpermit, hcomplete, read_off, released>>
envVars == <<notify_data_ready, data_to_send>>

HStates == {"none", "idle", "racing", "returned", "released", "unwound", "done"}

TypeOK ==
    /\ max_clients \in 0..MaxCapacity
    /\ limit_connections \in 0..MaxCapacity
    /\ listener \in {"acquire", "accept", "error", "dropped"}
    /\ permit \in BOOLEAN
    /\ backoff \in 1..(4 * BackoffCeiling)
    /\ slept \in 0..(4 * BackoffCeiling)
    /\ retries \in 0..16
    /\ pending \in 0..MaxConns
    /\ spawned \in 0..MaxConns
    /\ start \in {"select", "drop_notify", "drop_tx", "recv", "returned", "panicked"}
    /\ reported \in BOOLEAN
    /\ notify_shutdown \in BOOLEAN
    /\ shutdown_complete_tx \in BOOLEAN
    /\ notify_data_ready \in BOOLEAN
    /\ data_to_send \in 0..MaxPayload
    /\ hstate \in [Handlers -> HStates]
    /\ hpermit \in [Handlers -> BOOLEAN]
    /\ hcomplete \in [Handlers -> BOOLEAN]
    /\ read_off \in [Handlers -> BOOLEAN]
    /\ released \in [Handlers -> 0..2]
    /\ sent \in SUBSET (0..MaxPayload)

\* TcpServer::new: Semaphore::new(max_clients), broadcast::channel(1),
\* mpsc::channel(1); start_server then enters its select! with run() at the
\* top of its loop.
Init ==
    /\ max_clients \in 0..MaxCapacity
    /\ limit_connections = max_clients
    /\ listener = "acquire"
    /\ permit = FALSE
    /\ backoff = 1
    /\ slept = 0
    /\ retries = 0
    /\ pending = 0
    /\ spawned = 0
    /\ start = "select"
    /\ reported = FALSE
    /\ notify_shutdown = TRUE
    /\ shutdown_complete_tx = TRUE
    /\ notify_data_ready = FALSE
    /\ data_to_send = 0
    /\ hstate = [h \in Handlers |-> "none"]
    /\ hpermit = [h \in Handlers |-> FALSE]
    /\ hcomplete = [h \in Handlers |-> FALSE]
    /\ read_off = [h \in Handlers |-> FALSE]
    /\ released = [h \in Handlers |-> 0]
    /\ sent = {}


\* ------------------------------------------------------------ primitives
\* Semaphore: dropping an OwnedSemaphorePermit gives one permit back.
add_permit == limit_connections + 1

\* A completion channel that counts only the coordinator's own sender.
complete_closed_own == ~shutdown_complete_tx

\* The coordinator's completion receiver sees the channel closed: every
\* mpsc::Sender clone (the server's own and one per handler) is dropped.
complete_closed == ~shutdown_complete_tx /\ \A h \in Handlers : ~hcomplete[h]

\* A task that was spawned and has not finished.
Live(h) == hstate[h] \notin {"none", "done"}

\* The task's SocketHandler exists: run() is executing or has returned and
\* the handler (its socket halves, its completion sender) is not yet dropped.
HandlerExists(h) == hstate[h] \in {"idle", "racing", "returned", "released"}

\* Tasks that were spawned and have not yet given their permit back.
Holding == {h \in Handlers : Live(h) /\ hstate[h] # "released"}

\* Tasks parked on notified_data_ready.notified().
Idle == {h \in Handlers : hstate[h] = "idle"}

\* -------------------------------------------------- listener: TcpServer::run
\* run() is polled only from start_server's select!, hence start = "select".

\* A listener that goes on to accept without taking a permit out of the pool.
acquire_owned_free ==
    /\ start = "select"
    /\ listener = "acquire"
    /\ limit_connections > 0
    /\ permit' = TRUE
    /\ listener' = "accept"
    /\ backoff' = 1
    /\ slept' = 0
    /\ retries' = 0
    /\ UNCHANGED <<max_clients, limit_connections, pending, spawned, coordVars, envVars,
                   handlerVars, sent>>

\* limit_connections.clone().acquire_owned().await.unwrap(), then the call of
\* self.accept() sets backoff = 1.
acquire_owned ==
    /\ start = "select"
    /\ listener = "acquire"
    /\ limit_connections > 0
    /\ limit_connections' = limit_connections - 1
    /\ permit' = TRUE
    /\ listener' = "accept"
    /\ backoff' = 1
    /\ slept' = 0
    /\ retries' = 0
    /\ UNCHANGED <<max_clients, pending, spawned, coordVars, envVars, handlerVars, sent>>

\* The future of accept() is gone (it returned a socket, or run() was
\* dropped): its locals no longer exist; the model parks them at their
\* initial values.
AcceptLocalsGone ==
    /\ backoff' = 1
    /\ slept' = 0
    /\ retries' = 0

\* A listener that takes the connection out of the accept queue before it
\* has a permit, and spawns the handler without one.
AcceptOkFirst(h) ==
    /\ start = "select"
    /\ listener \in {"acquire", "accept"}
    /\ pending > 0
    /\ h = spawned + 1
    /\ h \in Handlers
    /\ pending' = pending - 1
    /\ spawned' = h
    /\ hstate' = [hstate EXCEPT ![h] = "idle"]
    /\ hpermit' = [hpermit EXCEPT ![h] = permit]
    /\ hcomplete' = [hcomplete EXCEPT ![h] = shutdown_complete_tx]
    /\ permit' = FALSE
    /\ listener' = "acquire"
    /\ AcceptLocalsGone
    /\ UNCHANGED <<max_clients, limit_connections, coordVars, envVars, read_off, released, sent>>

\* listener.accept() returns Ok; set_nodelay and peer_addr succeed; the
\* handler is built (subscribe(), shutdown_complete_tx.clone()) and tokio::spawn moves handler and permit into the new task.
AcceptOk(h) ==
    /\ start = "select"
    /\ listener = "accept"
    /\ pending > 0
    /\ h = spawned + 1
    /\ h \in Handlers
    /\ pending' = pending - 1
    /\ spawned' = h
    /\ hstate' = [hstate EXCEPT ![h] = "idle"]
    /\ hpermit' = [hpermit EXCEPT ![h] = permit]
    /\ hcomplete' = [hcomplete EXCEPT ![h] = shutdown_complete_tx]
    /\ permit' = FALSE
    /\ listener' = "acquire"
    /\ AcceptLocalsGone
    /\ UNCHANGED <<max_clients, limit_connections, coordVars, envVars, read_off, released, sent>>

\* A retry that forgets to double the delay.
AcceptRetrySame ==
    /\ start = "select"
    /\ listener = "accept"
    /\ backoff <= BackoffCeiling
    /\ slept' = slept + backoff
    /\ backoff' = backoff
    /\ retries' = retries + 1
    /\ UNCHANGED <<max_clients, limit_connections, listener, permit, pending, spawned,
                   coordVars, envVars, handlerVars, sent>>

\* listener.accept() returns Err while backoff <= 64: sleep(backoff), then
\* backoff *= 2 and the loop retries.
AcceptRetry ==
    /\ start = "select"
    /\ listener = "accept"
    /\ backoff <= BackoffCeiling
    /\ slept' = slept + backoff
    /\ backoff' = backoff * 2
    /\ retries' = retries + 1
    /\ UNCHANGED <<max_clients, limit_connections, listener, permit, pending, spawned,
                   coordVars, envVars, handlerVars, sent>>

\* A start_server that returns as soon as run() has failed.
RunErrReturns ==
    /\ listener' = "error"
    /\ permit' = FALSE
    /\ limit_connections' = IF permit THEN add_permit ELSE limit_connections
    /\ start' = "returned"
    /\ reported' = TRUE

\* A run() that fails and keeps the permit it had acquired in advance.
RunErrKeepsPermit ==
    /\ listener' = "error"
    /\ permit' = permit
    /\ limit_connections' = limit_connections
    /\ start' = "drop_notify"
    /\ reported' = TRUE

\* run() returns Err(..): its local permit is dropped, start_server's select!
\* takes the first branch and prints the error.
RunErr ==
    /\ listener' = "error"
    /\ permit' = FALSE
    /\ limit_connections' = IF permit THEN add_permit ELSE limit_connections
    /\ start' = "drop_notify"
    /\ reported' = TRUE

\* An accept that gives up once the delay has reached the ceiling, without
\* ever sleeping for it.
AcceptFatalEarly ==
    /\ start = "select"
    /\ listener = "accept"
    /\ backoff >= BackoffCeiling
    /\ RunErr
    /\ UNCHANGED <<max_clients, backoff, slept, retries, pending, spawned,
                   notify_shutdown, shutdown_complete_tx, envVars, handlerVars, sent>>

\* listener.accept() returns Err while backoff > 64: accept returns the
\* error and `?` in run propagates it.
AcceptFatal ==
    /\ start = "select"
    /\ listener = "accept"
    /\ backoff > BackoffCeiling
    /\ RunErr
    /\ UNCHANGED <<max_clients, backoff, slept, retries, pending, spawned,
                   notify_shutdown, shutdown_complete_tx, envVars, handlerVars, sent>>

\* accept returned a socket but socket.set_nodelay(true)? fails: run returns
\* the error; socket and permit are dropped, no handler is spawned.
SetNodelayErr ==
    /\ start = "select"
    /\ listener = "accept"
    /\ pending > 0
    /\ pending' = pending - 1
    /\ RunErr
    /\ AcceptLocalsGone
    /\ UNCHANGED <<max_clients, spawned,
                   notify_shutdown, shutdown_complete_tx, envVars, handlerVars, sent>>

\* accept returned a socket but socket.peer_addr().unwrap() panics: the
\* panic unwinds through run and start_server, dropping the permit and the
\* whole TcpServer (both senders); start_server never returns.
PeerAddrPanic ==
    /\ start = "select"
    /\ listener = "accept"
    /\ pending > 0
    /\ pending' = pending - 1
    /\ listener' = "dropped"
    /\ permit' = FALSE
    /\ limit_connections' = IF permit THEN add_permit ELSE limit_connections
    /\ start' = "panicked"
    /\ notify_shutdown' = FALSE
    /\ shutdown_complete_tx' = FALSE
    /\ AcceptLocalsGone
    /\ UNCHANGED <<max_clients, spawned, reported,
                   envVars, handlerVars, sent>>

\* ---------------------------------------------- coordinator: start_server
\* A shutdown that loses the permit the listener had acquired in advance.
ShutdownTriggerLeak ==
    /\ start = "select"
    /\ start' = "drop_notify"
    /\ listener' = "dropped"
    /\ permit' = FALSE
    /\ AcceptLocalsGone
    /\ UNCHANGED <<max_clients, limit_connections, pending, spawned, reported,
                   notify_shutdown, shutdown_complete_tx, envVars, handlerVars, sent>>

\* The `shutdown` future resolves first: select! takes the second branch
\* and drops the run() future together with a permit it may hold.
ShutdownTrigger ==
    /\ start = "select"
    /\ start' = "drop_notify"
    /\ listener' = "dropped"
    /\ permit' = FALSE
    /\ limit_connections' = IF permit THEN add_permit ELSE limit_connections
    /\ AcceptLocalsGone
    /\ UNCHANGED <<max_clients, pending, spawned, reported,
                   notify_shutdown, shutdown_complete_tx, envVars, handlerVars, sent>>

\* A coordinator that closes the broadcast channel while the listener loop
\* is still being polled.
DropNotifyWhileListening ==
    /\ start = "select"
    /\ notify_shutdown
    /\ notify_shutdown' = FALSE
    /\ UNCHANGED <<max_clients, limit_connections, listenerVars, start, reported,
                   shutdown_complete_tx, envVars, handlerVars, sent>>

\* drop(notify_shutdown): the broadcast channel is closed.
DropNotifyShutdown ==
    /\ start = "drop_notify"
    /\ notify_shutdown' = FALSE
    /\ start' = "drop_tx"
    /\ UNCHANGED <<max_clients, limit_connections, listenerVars, reported,
                   shutdown_complete_tx, envVars, handlerVars, sent>>

\* drop(shutdown_complete_tx).
DropShutdownCompleteTx ==
    /\ start = "drop_tx"
    /\ shutdown_complete_tx' = FALSE
    /\ start' = "recv"
    /\ UNCHANGED <<max_clients, limit_connections, listenerVars, reported,
                   notify_shutdown, envVars, handlerVars, sent>>

\* shutdown_complete_rx.recv().await: nothing is ever sent, so it resolves
\* (with None) only when the channel is closed; start_server then returns.
RecvClosed ==
    /\ start = "recv"
    /\ complete_closed
    /\ start' = "returned"
    /\ UNCHANGED <<max_clients, limit_connections, listenerVars, reported,
                   notify_shutdown, shutdown_complete_tx, envVars, handlerVars, sent>>


\* ------------------------------------------ environment: payload producer
\* The producer swaps a new buffer into the ArcSwap cell.
Publish ==
    /\ data_to_send < MaxPayload
    /\ data_to_send' = data_to_send + 1
    /\ UNCHANGED <<max_clients, limit_connections, listenerVars, coordVars,
                   notify_data_ready, handlerVars, sent>>

\* A connection attempt reaches the listening socket's accept queue.
Arrive ==
    /\ pending + spawned < MaxConns
    /\ pending' = pending + 1
    /\ UNCHANGED <<max_clients, limit_connections, listener, permit, backoff, slept,
                   retries, spawned, coordVars, envVars, handlerVars, sent>>

\* Notify::notify_one with a parked waiter: that waiter's notified()
\* completes and its task enters select!.
NotifyOneWake(h) ==
    /\ hstate[h] = "idle"
    /\ hstate' = [hstate EXCEPT ![h] = "racing"]
    /\ read_off' = [read_off EXCEPT ![h] = FALSE]
    /\ UNCHANGED <<max_clients, limit_connections, listenerVars, coordVars, envVars,
                   hpermit, hcomplete, released, sent>>

\* Notify::notify_one with no parked waiter: one permit is stored.
NotifyOneStore ==
    /\ Idle = {}
    /\ ~notify_data_ready
    /\ notify_data_ready' = TRUE
    /\ UNCHANGED <<max_clients, limit_connections, listenerVars, coordVars,
                   data_to_send, handlerVars, sent>>

\* Notify::notify_waiters: every parked waiter is woken, no permit is stored.
NotifyWaiters ==
    /\ Idle # {}
    /\ hstate' = [h \in Handlers |-> IF h \in Idle THEN "racing" ELSE hstate[h]]
    /\ read_off' = [h \in Handlers |-> IF h \in Idle THEN FALSE ELSE read_off[h]]
    /\ UNCHANGED <<max_clients, limit_connections, listenerVars, coordVars, envVars,
                   hpermit, hcomplete, released, sent>>

\* ------------------------------------- handler task: SocketHandler::run
\* notified().await finds the stored permit and consumes it.
NotifiedStored(h) ==
    /\ hstate[h] = "idle"
    /\ notify_data_ready
    /\ notify_data_ready' = FALSE
    /\ hstate' = [hstate EXCEPT ![h] = "racing"]
    /\ read_off' = [read_off EXCEPT ![h] = FALSE]
    /\ UNCHANGED <<max_clients, limit_connections, listenerVars, coordVars,
                   data_to_send, hpermit, hcomplete, released, sent>>

\* A writer that keeps a copy of the buffer it was built with instead of
\* the shared cell: it lags behind the producer.
SocketWriterCopy(h) == IF data_to_send > 0 THEN data_to_send - 1 ELSE 0

\* The cell a handler's SocketWriter reads: a clone of the server's Arc, so
\* the one shared cell.
SocketWriterCell(h) == data_to_send

\* SocketWriter::write_packet sends the buffer that is current in its cell.
write_packet(cell) == cell

\* A handler that returns after a successful write instead of waiting for
\* the next readiness signal.
WriteOkCloses(h) ==
    /\ hstate[h] = "racing"
    /\ sent' = sent \cup {write_packet(SocketWriterCell(h))}
    /\ hstate' = [hstate EXCEPT ![h] = "returned"]
    /\ read_off' = [read_off EXCEPT ![h] = FALSE]
    /\ UNCHANGED <<max_clients, limit_connections, listenerVars, coordVars, envVars,
                   hpermit, hcomplete, released>>

\* select!: `_ = write_packet() => {}` with Ok: the loop continues.
WriteOk(h) ==
    /\ hstate[h] = "racing"
    /\ sent' = sent \cup {write_packet(SocketWriterCell(h))}
    /\ hstate' = [hstate EXCEPT ![h] = "idle"]
    /\ read_off' = [read_off EXCEPT ![h] = FALSE]
    /\ UNCHANGED <<max_clients, limit_connections, listenerVars, coordVars, envVars,
                   hpermit, hcomplete, released>>

\* select!: `_ = write_packet() => {}` with Err: the pattern `_` matches it
\* too, the body is empty and the loop continues.
WriteErr(h) ==
    /\ hstate[h] = "racing"
    /\ hstate' = [hstate EXCEPT ![h] = "idle"]
    /\ read_off' = [read_off EXCEPT ![h] = FALSE]
    /\ UNCHANGED <<max_clients, limit_connections, listenerVars, coordVars, envVars,
                   hpermit, hcomplete, released, sent>>

\* select!: `Ok(read_size) = read_packet()` with read_size > 0.
ReadData(h) ==
    /\ hstate[h] = "racing"
    /\ ~read_off[h]
    /\ hstate' = [hstate EXCEPT ![h] = "idle"]
    /\ UNCHANGED <<max_clients, limit_connections, listenerVars, coordVars, envVars,
                   hpermit, hcomplete, read_off, released, sent>>

\* select!: `Ok(read_size) = read_packet()` with read_size == 0: return Ok(()).
ReadEof(h) ==
    /\ hstate[h] = "racing"
    /\ ~read_off[h]
    /\ hstate' = [hstate EXCEPT ![h] = "returned"]
    /\ UNCHANGED <<max_clients, limit_connections, listenerVars, coordVars, envVars,
                   hpermit, hcomplete, read_off, released, sent>>

\* A read error that is propagated out of the task and stops the listener.
ReadErrPropagates(h) ==
    /\ hstate[h] = "racing"
    /\ ~read_off[h]
    /\ start = "select"
    /\ hstate' = [hstate EXCEPT ![h] = "returned"]
    /\ listener' = "error"
    /\ start' = "drop_notify"
    /\ UNCHANGED <<max_clients, limit_connections, permit, backoff, slept, retries,
                   pending, spawned, reported, notify_shutdown, shutdown_complete_tx,
                   envVars, hpermit, hcomplete, read_off, released, sent>>

\* select!: read_packet() yields Err: the pattern Ok(read_size) does not
\* match, the branch is disabled and select! keeps waiting on the others.
ReadErr(h) ==
    /\ hstate[h] = "racing"
    /\ ~read_off[h]
    /\ read_off' = [read_off EXCEPT ![h] = TRUE]
    /\ UNCHANGED <<max_clients, limit_connections, listenerVars, coordVars, envVars,
                   hstate, hpermit, hcomplete, released, sent>>

\* A handler that waits for a message on the broadcast channel and does not
\* take the channel's closing for one: nothing is ever sent.
ShutdownRecvMessage(h) ==
    /\ hstate[h] = "racing"
    /\ FALSE
    /\ UNCHANGED vars

\* A handler that also watches the broadcast channel while it waits for the
\* readiness signal.
ShutdownRecvParked(h) ==
    /\ hstate[h] \in {"idle", "racing"}
    /\ ~notify_shutdown
    /\ hstate' = [hstate EXCEPT ![h] = "returned"]
    /\ read_off' = [read_off EXCEPT ![h] = FALSE]
    /\ UNCHANGED <<max_clients, limit_connections, listenerVars, coordVars, envVars,
                   hpermit, hcomplete, released, sent>>

\* select!: shutdown_signal.recv() resolves (Err(Closed): nothing is ever
\* sent, the sender was dropped): shutdown = true; return Ok(()).  The
\* flag is never read again: the loop guard `!self.shutdown` is only ever
\* evaluated while it is false, so the model keeps no variable for it.
ShutdownRecv(h) ==
    /\ hstate[h] = "racing"
    /\ ~notify_shutdown
    /\ hstate' = [hstate EXCEPT ![h] = "returned"]
    /\ read_off' = [read_off EXCEPT ![h] = FALSE]
    /\ UNCHANGED <<max_clients, limit_connections, listenerVars, coordVars, envVars,
                   hpermit, hcomplete, released, sent>>

\* The permit leaves the task: the semaphore gets it back.
ReleasePermit(h) ==
    /\ hpermit[h]
    /\ hpermit' = [hpermit EXCEPT ![h] = FALSE]
    /\ released' = [released EXCEPT ![h] = @ + 1]
    /\ limit_connections' = add_permit

\* A task that forgets its permit instead of dropping it: the pool never
\* gets it back.
DropPermitLeak(h) ==
    /\ hstate[h] = "returned"
    /\ hpermit[h]
    /\ hpermit' = [hpermit EXCEPT ![h] = FALSE]
    /\ released' = [released EXCEPT ![h] = @ + 1]
    /\ hstate' = [hstate EXCEPT ![h] = "released"]
    /\ UNCHANGED <<max_clients, limit_connections, listenerVars, coordVars, envVars,
                   hcomplete, read_off, sent>>

\* The spawned block after handler.run(): drop(permit).
DropPermit(h) ==
    /\ hstate[h] = "returned"
    /\ ReleasePermit(h)
    /\ hstate' = [hstate EXCEPT ![h] = "released"]
    /\ UNCHANGED <<max_clients, listenerVars, coordVars, envVars,
                   hcomplete, read_off, sent>>

\* End of the spawned block: the handler is dropped (Drop prints
\* "disconnected", both socket halves, the broadcast receiver and the
\* _shutdown_complete clone go) and the task is finished.
DropHandler(h) ==
    /\ hstate[h] = "released"
    /\ hcomplete' = [hcomplete EXCEPT ![h] = FALSE]
    /\ hstate' = [hstate EXCEPT ![h] = "done"]
    /\ UNCHANGED <<max_clients, limit_connections, listenerVars, coordVars, envVars,
                   hpermit, read_off, released, sent>>

\* The task fails abnormally (a panic inside a packet operation): the
\* runtime catches it and drops the task's future, i.e. the captured permit
\* and handler, in an order the language does not fix.  With the permit
\* first the rest is the tail of the normal path (DropPermit, DropHandler).
PanicPermitFirst(h) ==
    /\ hstate[h] = "racing"
    /\ hstate' = [hstate EXCEPT ![h] = "returned"]
    /\ read_off' = [read_off EXCEPT ![h] = FALSE]
    /\ UNCHANGED <<max_clients, limit_connections, listenerVars, coordVars, envVars,
                   hpermit, hcomplete, released, sent>>

\* The same failure with the handler dropped first ...
PanicHandlerFirst(h) ==
    /\ hstate[h] = "racing"
    /\ hcomplete' = [hcomplete EXCEPT ![h] = FALSE]
    /\ hstate' = [hstate EXCEPT ![h] = "unwound"]
    /\ read_off' = [read_off EXCEPT ![h] = FALSE]
    /\ UNCHANGED <<max_clients, limit_connections, listenerVars, coordVars, envVars,
                   hpermit, released, sent>>

\* An unwinding that loses the permit instead of giving it back.
UnwindPermitLeak(h) ==
    /\ hstate[h] = "unwound"
    /\ hpermit[h]
    /\ hpermit' = [hpermit EXCEPT ![h] = FALSE]
    /\ hstate' = [hstate EXCEPT ![h] = "done"]
    /\ UNCHANGED <<max_clients, limit_connections, listenerVars, coordVars, envVars,
                   hcomplete, read_off, released, sent>>

\* ... and the permit after it, which ends the task.
UnwindPermit(h) ==
    /\ hstate[h] = "unwound"
    /\ ReleasePermit(h)
    /\ hstate' = [hstate EXCEPT ![h] = "done"]
    /\ UNCHANGED <<max_clients, listenerVars, coordVars, envVars,
                   hcomplete, read_off, sent>>

\* ------------------------------------------------------- specification
\* Every step of the server, of its peers and of the readiness signal.
Next ==
    \/ acquire_owned
    \/ \E h \in Handlers : AcceptOk(h)
    \/ AcceptRetry
    \/ AcceptFatal
    \/ SetNodelayErr
    \/ PeerAddrPanic
    \/ ShutdownTrigger
    \/ DropNotifyShutdown
    \/ DropShutdownCompleteTx
    \/ RecvClosed
    \/ Arrive
    \/ \E h \in Handlers : NotifyOneWake(h)
    \/ NotifyOneStore
    \/ NotifyWaiters
    \/ \E h \in Handlers : NotifiedStored(h)
    \/ \E h \in Handlers : WriteOk(h)
    \/ \E h \in Handlers : WriteErr(h)
    \/ \E h \in Handlers : ReadData(h)
    \/ \E h \in Handlers : ReadEof(h)
    \/ \E h \in Handlers : ReadErr(h)
    \/ \E h \in Handlers : ShutdownRecv(h)
    \/ \E h \in Handlers : PanicPermitFirst(h)
    \/ \E h \in Handlers : PanicHandlerFirst(h)
    \/ \E h \in Handlers : DropPermit(h)
    \/ \E h \in Handlers : DropHandler(h)
    \/ \E h \in Handlers : UnwindPermit(h)

Spec == Init /\ [][Next]_vars

\* The server together with a producer that publishes.  What the cell
\* holds never influences the control flow of the server, so the producer's
\* publishes are left to this specification, which the claims about the
\* payload are checked under.
PayloadNext == Next \/ Publish

PayloadSpec == Init /\ [][PayloadNext]_vars

\* A step of the listener that consumes a waiting connection or fails on it.
AcceptStep ==
    /\ pending > 0
    /\ \/ \E h \in Handlers : AcceptOk(h)
       \/ AcceptRetry
       \/ AcceptFatal
       \/ SetNodelayErr
       \/ PeerAddrPanic

\* What the runtime guarantees: a task that can take its next step takes it
\* (weak fairness of every step that waits for nothing outside the server),
\* and select! picks among ready branches at random, so a branch that is
\* ready in infinitely many iterations is eventually taken (strong fairness
\* of the shutdown branch).  Nothing is assumed of the environment: the
\* producer may stop publishing and notifying, peers may stay silent, the
\* shutdown trigger may never fire.
Fairness ==
    /\ WF_vars(acquire_owned)
    /\ WF_vars(AcceptStep)
    /\ WF_vars(DropNotifyShutdown)
    /\ WF_vars(DropShutdownCompleteTx)
    /\ WF_vars(RecvClosed)
    /\ \A h \in Handlers :
          /\ WF_vars(NotifiedStored(h))
          /\ SF_vars(ShutdownRecv(h))
          /\ WF_vars(DropPermit(h))
          /\ WF_vars(DropHandler(h))
          /\ WF_vars(UnwindPermit(h))

FairSpec == Init /\ [][Next]_vars /\ Fairness


\* ================================================================ claims

\* C1 (as stated): at most max_clients spawned handler tasks are unfinished.
\* Refuted: a task gives its permit back with drop(permit) before its
\* handler is dropped, so the listener can spawn the next task meanwhile.
C1_TasksBounded == Cardinality({h \in Handlers : Live(h)}) <= max_clients

\* C1 (amended): the handler tasks that have not yet given their permit back
\* (everything up to drop(permit)) never number more than max_clients, and
\* each of them owns a permit.
C1_HoldersBounded ==
    /\ Cardinality(Holding) <= max_clients
    /\ \A h \in Handlers : h \in Holding <=> hpermit[h]

C1_Witness ==
    /\ max_clients > 1
    /\ Cardinality(Holding) = max_clients
    /\ pending > 0
    /\ listener = "acquire"
    /\ start = "select"

C3_PermitReleasedOnce ==
    /\ \A h \in Handlers :
          /\ released[h] <= 1
          /\ hpermit[h] => released[h] = 0
          /\ hstate[h] = "done" => released[h] = 1 /\ ~hpermit[h]
    /\ ((\A h \in Handlers : ~Live(h)) /\ ~permit) => limit_connections = max_clients

C3_Witness ==
    /\ max_clients > 0
    /\ spawned >= 2
    /\ \A h \in 1..spawned : hstate[h] = "done" /\ released[h] = 1
    /\ ~permit
    /\ limit_connections = max_clients

\* C4 (as stated): a race iteration in which read_packet or write_packet
\* reports an I/O error ends the handler's loop.  Refuted by the code: a
\* write error matches `_` and the loop continues, a read error only
\* disables the read branch of the select!.
C4_IoErrorCloses ==
    [][\A h \in Handlers :
          (ReadErr(h) \/ WriteErr(h)) => hstate'[h] \in {"returned", "released", "done"}]_vars


\* C5 (as stated): once the broadcast sender is dropped, every handler task
\* live at that moment eventually terminates.  Refuted: a handler parked on
\* notified() sees the closed channel only after a readiness wake, and
\* nothing makes the producer notify again.
C5_AllTerminate ==
    \A h \in Handlers : (~notify_shutdown /\ Live(h)) ~> ~Live(h)

\* C5 (amended): once the broadcast sender is dropped, every handler task
\* eventually either has terminated or stays parked on the readiness signal
\* for ever; none keeps racing or keeps going through race iterations.
C5_TerminateOrParked ==
    <>[](notify_shutdown \/ \A h \in Handlers : hstate[h] \in {"none", "idle", "done"})

C5_Witness ==
    /\ ~notify_shutdown
    /\ start = "recv"
    /\ \E h \in Handlers : hstate[h] = "done"
    /\ \E h \in Handlers : hstate[h] = "idle"

\* The first two tasks of the scenario of C6; the third one is task 3.
First == {1, 2}

\* C6 (as stated): with capacity 2 the third connection gets no handler
\* while both of the first two tasks are unfinished, and once one of them has
\* terminated the third is eventually admitted.  Refuted twice: the third
\* is spawned as soon as a permit is back, before that task has finished; and
\* it is never admitted when phase 1 ends first.
C6_ThirdWaits ==
    /\ [](max_clients = 2 /\ hstate[3] # "none" => \E h \in First : ~Live(h))
    /\ (max_clients = 2 /\ spawned = 2 /\ pending > 0 /\ (\E h \in First : ~Live(h)))
          ~> (hstate[3] # "none")

\* C6 (amended): with capacity 2 the third connection gets no handler while
\* both of the first two tasks still hold their permits, and once one of them
\* has given its permit back the third is eventually admitted unless phase 1
\* ends first (the shutdown trigger fires or the listener fails).
C6_ThirdWaitsForPermit ==
    /\ [](max_clients = 2 /\ hstate[3] # "none" => \E h \in First : h \notin Holding)
    /\ (max_clients = 2 /\ spawned = 2 /\ pending > 0 /\ start = "select"
           /\ (\E h \in First : h \notin Holding))
          ~> (hstate[3] # "none" \/ start # "select")

C6_Witness ==
    /\ max_clients = 2
    /\ hstate[3] = "idle"
    /\ \E h \in First : hstate[h] = "done"
    /\ \E h \in First : hstate[h] \in {"idle", "racing"}
    /\ start = "select"

C8_ErrorStillDrains ==
    listener = "error" =>
        /\ reported
        /\ start \in {"drop_notify", "drop_tx", "recv", "returned"}
        /\ start \in {"drop_tx", "recv", "returned"} => ~notify_shutdown
        /\ start \in {"recv", "returned"} => ~shutdown_complete_tx
        /\ start = "returned" => \A h \in Handlers : ~HandlerExists(h) /\ ~hcomplete[h]

C8_Witness ==
    /\ listener = "error"
    /\ backoff > BackoffCeiling
    /\ start = "returned"
    /\ \E h \in Handlers : hstate[h] = "done"

\* Number of times a delay starting at b is doubled until it exceeds the
\* ceiling.
RECURSIVE Doublings(_)
Doublings(b) == IF b > BackoffCeiling THEN 0 ELSE 1 + Doublings(2 * b)

\* C9: one call of accept retries at most Doublings(1) times: each failure
\* uses up one doubling, and a failure after the last one cannot be retried,
\* it is returned as the fatal error.
C9_RetriesBounded ==
    listener = "accept" =>
        /\ retries + Doublings(backoff) = Doublings(1)
        /\ Doublings(backoff) = 0 => ~ENABLED AcceptRetry /\ ENABLED AcceptFatal

C9_Witness ==
    /\ listener = "error"
    /\ retries = Doublings(1)
    /\ backoff > BackoffCeiling

\* C10: a read or write error in one handler leaves the listener, the
\* coordinator, the pool and every other task as they were, and the listener
\* loop ends with an error only by a step of its own on the accept path.
C10_ErrorIsolated ==
    [][/\ \A h \in Handlers :
             (ReadErr(h) \/ WriteErr(h)) =>
                 /\ UNCHANGED <<listenerVars, coordVars, limit_connections, hpermit, hcomplete>>
                 /\ \A g \in Handlers \ {h} : hstate'[g] = hstate[g] /\ read_off'[g] = read_off[g]
       /\ (listener' = "error" /\ listener # "error") =>
             listener = "accept" /\ (AcceptFatal \/ SetNodelayErr)]_vars

C10_Witness ==
    /\ \E h \in Handlers : read_off[h] /\ \E g \in Handlers \ {h} : hstate[g] = "idle"
    /\ listener = "acquire"
    /\ start = "select"
    /\ notify_shutdown

\* C11 (as stated): the listener accepts first and acquires its permit
\* afterwards: it holds no permit at the moment it takes a connection out of
\* the accept queue, and an exhausted pool does not keep it from taking the
\* next one.  Refuted: run() awaits acquire_owned() before it calls accept().
C11_AcceptThenAcquire ==
    [][/\ pending' < pending => ~permit
       /\ (max_clients > 0 /\ limit_connections = 0 /\ ~permit /\ pending > 0
              /\ start = "select" /\ listener \in {"acquire", "accept"})
            => ENABLED (Next /\ pending' < pending)]_vars

\* C11 (amended): the listener acquires its permit first and accepts
\* afterwards: it takes a connection out of the accept queue only while it
\* holds a permit, and with the pool exhausted it stays suspended at acquire
\* and takes none, so the connection stays in the accept queue.
C11_AcquireThenAccept ==
    [][/\ pending' < pending => permit /\ listener = "accept"
       /\ (limit_connections = 0 /\ listener = "acquire")
            => listener' # "accept" /\ pending' >= pending]_vars

C11_Witness ==
    /\ max_clients > 0
    /\ limit_connections = 0
    /\ listener = "acquire"
    /\ ~permit
    /\ pending > 0
    /\ spawned = max_clients
    /\ start = "select"

\* The delay accept() uses after n consecutive failures: 1 doubled n times.
RECURSIVE DelayAfter(_)
DelayAfter(n) == IF n = 0 THEN 1 ELSE 2 * DelayAfter(n - 1)

\* C12: every call of accept starts with a delay of 1; a failure that is
\* retried sleeps for the current delay, which is at most the ceiling, and
\* doubles it, so the n-th retry sleeps DelayAfter(n - 1); the failure that is
\* returned as the fatal error is the first one met with a delay above the
\* ceiling.
C12_BackoffSequence ==
    [][/\ acquire_owned => backoff' = 1 /\ retries' = 0
       /\ AcceptRetry =>
             /\ backoff = DelayAfter(retries)
             /\ slept' - slept = backoff
             /\ slept' - slept <= BackoffCeiling
             /\ backoff' = 2 * backoff
       /\ AcceptFatal =>
             /\ backoff = DelayAfter(retries)
             /\ backoff > BackoffCeiling
             /\ DelayAfter(retries - 1) <= BackoffCeiling
       /\ (listener = "accept" /\ backoff > BackoffCeiling) => ~AcceptRetry]_vars

\* A later call of accept (a handler was spawned by an earlier one) that
\* started again at 1 and has doubled its delay up to the ceiling.
C12_Witness ==
    /\ listener = "accept"
    /\ spawned > 0
    /\ backoff = BackoffCeiling
    /\ retries = Doublings(1) - 1
    /\ slept = BackoffCeiling - 1

\* C13 (as stated): the delays slept by one call of accept add up to at most
\* one ceiling.  Refuted: the call sleeps 1 + 2 + ... + 64 = 127 before the
\* failure it gives up on.
C13_TotalWithinCeiling == slept <= BackoffCeiling

\* C13 (amended): the delays slept by one call of accept add up to one less
\* than its current delay, so to less than twice the ceiling, and a call that
\* gives up has slept exactly 2 * ceiling - 1.
C13_TotalBelowTwoCeilings ==
    /\ slept <= 2 * BackoffCeiling - 1
    /\ listener = "accept" => slept = backoff - 1
    /\ (listener = "error" /\ backoff > BackoffCeiling) => slept = 2 * BackoffCeiling - 1

C13_Witness ==
    /\ listener = "error"
    /\ reported
    /\ slept = 2 * BackoffCeiling - 1

\* C14 (as stated): exactly one of the three attempts completes in a race
\* iteration: when the write attempt or the shutdown receipt completes, no
\* read attempt has completed in the same select!.  Refuted by the code: a
\* read attempt that completes with an error does not win the race, it only
\* disables its branch (read_off), and the same select! goes on to complete
\* the write attempt or the shutdown receipt as well.
C14_OneCompletesPerRace ==
    [][\A h \in Handlers :
          (WriteOk(h) \/ WriteErr(h) \/ ShutdownRecv(h)) => ~read_off[h]]_vars

\* The states of a task whose handler has left its loop (Closing).
Closing == {"returned", "released", "unwound", "done"}

\* C15: a step of run() that takes a handler out of its loop is the read of 0
\* bytes or the shutdown receipt (no other step does, an I/O error included;
\* a panic does not leave the loop, it tears the task down); a successful
\* write and a read of more than 0 bytes put the handler back to Idle; and a
\* handler that has left its loop never waits, reads or writes again.
C15_HandlerStateMachine ==
    [][\A h \in Handlers :
          /\ (hstate[h] \in {"idle", "racing"} /\ hstate'[h] \in Closing
                 /\ ~(PanicPermitFirst(h) \/ PanicHandlerFirst(h)))
               => ReadEof(h) \/ ReadErr(h) \/ WriteErr(h) \/ ShutdownRecv(h)
          /\ (WriteOk(h) \/ ReadData(h)) => hstate'[h] = "idle"
          /\ hstate[h] \in Closing =>
                /\ hstate'[h] \in Closing
                /\ ~(NotifiedStored(h) \/ NotifyOneWake(h) \/ WriteOk(h) \/ WriteErr(h)
                       \/ ReadData(h) \/ ReadEof(h) \/ ReadErr(h) \/ ShutdownRecv(h))]_vars

\* One handler has gone through a successful write back to Idle, another
\* has left its loop while the broadcast sender still exists, i.e. not by
\* the shutdown receipt.
C15_Witness ==
    /\ notify_shutdown
    /\ sent # {}
    /\ \E h \in Handlers : hstate[h] = "idle" /\ \E g \in Handlers \ {h} : hstate[g] = "done"

\* C16: the broadcast sender is dropped only when start_server has left its
\* select! and run() has stopped (it returned an error or its future was
\* dropped); from then on no task is spawned, so no handler subscribes, and
\* a task that is not live does not become live: the set of live handlers
\* only shrinks.
C16_ShutdownOrdering ==
    [][/\ ~notify_shutdown' => start' # "select" /\ listener' \in {"error", "dropped"}
       /\ (start # "select" \/ ~notify_shutdown) =>
             /\ spawned' = spawned
             /\ ~(\E h \in Handlers : AcceptOk(h))
             /\ \A h \in Handlers :
                   hstate[h] \in {"none", "done"} => hstate'[h] = hstate[h]]_vars

\* The drain is under way with a handler alive, and a connection is waiting
\* while a permit is free: it is not admitted any more.
C16_Witness ==
    /\ ~notify_shutdown
    /\ start \in {"drop_tx", "recv"}
    /\ pending > 0
    /\ limit_connections > 0
    /\ \E h \in Handlers : Live(h)
    /\ \E h \in Handlers : hstate[h] = "done"

\* C17: a handler parked on notified() leaves it only by a readiness wake
\* (notify_one, notify_waiters, or a permit notify_one had stored); no step
\* of the coordinator, of the listener or of a peer moves it.  While parked
\* it owns its permit and its completion sender, so the completion channel
\* is not closed and start_server cannot return; and no permit gets stored
\* while it is parked, so after the shutdown only a new readiness signal
\* lets start_server return.
C17_ParkedUntilWake ==
    [][\A h \in Handlers :
          hstate[h] = "idle" =>
             /\ hpermit[h] /\ hcomplete[h]
             /\ start # "returned" /\ start' # "returned"
             /\ ~complete_closed
             /\ hstate'[h] # "idle" =>
                   /\ hstate'[h] = "racing"
                   /\ NotifyOneWake(h) \/ NotifyWaiters \/ NotifiedStored(h)
             /\ hstate'[h] = "idle" => hpermit'[h] /\ hcomplete'[h]
             /\ ~notify_data_ready => ~notify_data_ready']_vars

\* The shutdown has fired, the coordinator waits for the completion channel,
\* every other task is finished and one handler is still parked with nothing
\* stored for it: start_server stays where it is.
C17_Witness ==
    /\ ~notify_shutdown
    /\ ~shutdown_complete_tx
    /\ start = "recv"
    /\ ~notify_data_ready
    /\ Cardinality(Idle) = 1
    /\ \A h \in Handlers \ Idle : hstate[h] = "done"
    /\ ~ENABLED RecvClosed

\* Permits that are out of the pool: those owned by handler tasks and the
\* one the listener has acquired and not yet handed to a task.
PermitsOut == Cardinality({h \in Handlers : hpermit[h]}) + (IF permit THEN 1 ELSE 0)

\* C18 (as stated): available permits plus permits out add up to the
\* capacity, and while the listener waits in accept it holds a permit, so at
\* most max_clients - 1 handler tasks are unfinished.  The last part is
\* refuted: a task that has given its permit back and has not yet dropped its
\* handler is unfinished and holds nothing.
C18_AcceptLeavesRoom ==
    /\ limit_connections + PermitsOut = max_clients
    /\ listener = "accept" =>
          permit /\ Cardinality({h \in Handlers : Live(h)}) <= max_clients - 1

\* C18 (amended): available permits plus permits out add up to the capacity,
\* only unfinished tasks own permits, and while the listener waits in accept
\* it holds a permit, so at most max_clients - 1 tasks have not yet given
\* their permit back.
C18_PermitConservation ==
    /\ limit_connections + PermitsOut = max_clients
    /\ \A h \in Handlers : hpermit[h] => Live(h)
    /\ listener = "accept" =>
          permit /\ Cardinality(Holding) <= max_clients - 1

\* The listener waits in accept with the last permit while every other
\* permit is owned by a task.
C18_Witness ==
    /\ max_clients > 1
    /\ listener = "accept"
    /\ permit
    /\ limit_connections = 0
    /\ Cardinality(Holding) = max_clients - 1

C20_RacingSeesShutdown ==
    /\ [][\A h \in Handlers :
             (hstate[h] = "racing" /\ ~notify_shutdown) =>
                 /\ ENABLED ShutdownRecv(h)
                 /\ ShutdownRecv(h) =>
                       hstate'[h] = "returned" /\ UNCHANGED <<envVars, sent>>
                 /\ (hstate'[h] # "racing"
                       /\ ~(WriteOk(h) \/ WriteErr(h) \/ ReadData(h)))
                      => hstate'[h] \in Closing]_vars
    /\ []<>(notify_shutdown \/ \A h \in Handlers : hstate[h] \in {"none", "idle", "done"})

\* The broadcast sender is dropped and no write has ever completed; one
\* task has left its race and another is still in its select! with the read
\* branch disabled.
C20_Witness ==
    /\ ~notify_shutdown
    /\ sent = {}
    /\ ~notify_data_ready
    /\ \E h \in Handlers :
          /\ hstate[h] = "returned"
          /\ \E g \in Handlers \ {h} : hstate[g] = "racing" /\ read_off[g]

====
